---- MODULE Spec2Model ----
(***************************************************************************)
(* Model of the FalseNewsChecker heuristic scorer of the Vera news app.    *)
(* Two copies of the scorer exist: the web-app one (src/app.py) and the    *)
(* standalone one (src/falseNewsChecker.py).  Both are modelled; the       *)
(* definitions of the web-app copy carry the prefix app_, those of the     *)
(* standalone copy the prefix cli_.                                        *)
(*                                                                         *)
(* Numbers.  Python floats are modelled as exact decimal fixed-point       *)
(* numbers: the integer x stands for the real x / One.  Every input of the *)
(* model is a multiple of 0.01, which makes every product and quotient the *)
(* code computes exact in this representation (ExactArithmetic below).     *)
(* IEEE-754 rounding error (about 1e-16) is not modelled.                  *)
(*                                                                         *)
(* Strings are sequences of one-character strings.                         *)
(***************************************************************************)
EXTENDS Integers, Sequences, FiniteSets, TLC

\* ------------------------------------------------------------------------
\* Fixed-point representation of float
\* ------------------------------------------------------------------------
One == 10000
Cent == One \div 100

\* a * b and a / b on fixed-point numbers (floor division; exact on the
\* values the model produces)
FMul(a, b) == (a * b) \div One
FDiv(a, b) == (a * One) \div b
FMin(a, b) == IF a < b THEN a ELSE b

\* ------------------------------------------------------------------------
\* Python str operations
\* ------------------------------------------------------------------------
UpperAlpha == <<"A","B","C","D","E","F","G","H","I","J","K","L","M",
                "N","O","P","Q","R","S","T","U","V","W","X","Y","Z">>
LowerAlpha == <<"a","b","c","d","e","f","g","h","i","j","k","l","m",
                "n","o","p","q","r","s","t","u","v","w","x","y","z">>

\* the letters str.lower() and str.upper() change, as lookup tables
ToLower ==
    [c \in {UpperAlpha[i] : i \in 1..26} |->
        LowerAlpha[CHOOSE i \in 1..26 : UpperAlpha[i] = c]]
ToUpper ==
    [c \in {LowerAlpha[i] : i \in 1..26} |->
        UpperAlpha[CHOOSE i \in 1..26 : LowerAlpha[i] = c]]

\* str.lower() on one character
char_lower(c) == IF c \in DOMAIN ToLower THEN ToLower[c] ELSE c

\* str.upper() on one character
char_upper(c) == IF c \in DOMAIN ToUpper THEN ToUpper[c] ELSE c

\* str.lower()
str_lower(s) == [i \in 1..Len(s) |-> char_lower(s[i])]

\* str.upper()
str_upper(s) == [i \in 1..Len(s) |-> char_upper(s[i])]

\* s[i : i+len(p)] == p, for a position i with i + len(p) - 1 <= len(s)
MatchAt(s, p, i) == s[i] = p[1] /\ SubSeq(s, i, i + Len(p) - 1) = p

\* the positions at which p occurs in s
Occurrences(s, p) == {i \in 1..(Len(s) - Len(p) + 1) : MatchAt(s, p, i)}

\* the leftmost of the positions occ that is at or after i
FirstFrom(occ, i) ==
    CHOOSE j \in occ : j >= i /\ \A j2 \in occ : j2 >= i => j <= j2

\* str.count(p): the number of non-overlapping occurrences of p in s,
\* scanning from the left: the leftmost occurrence at or after position i
\* is counted and the scan resumes behind it (p is never empty here);
\* occ are the positions at which p occurs and n is len(p)
RECURSIVE CountFrom(_, _, _)
CountFrom(occ, n, i) ==
    IF \A j \in occ : j < i THEN 0
    ELSE 1 + CountFrom(occ, n, FirstFrom(occ, i) + n)

str_count(s, p) == CountFrom(Occurrences(s, p), Len(p), 1)

\* p in s
str_in(p, s) == \E i \in 1..(Len(s) - Len(p) + 1) : MatchAt(s, p, i)

\* s.endswith(p)
str_endswith(s, p) ==
    /\ Len(s) >= Len(p)
    /\ SubSeq(s, Len(s) - Len(p) + 1, Len(s)) = p

\* ------------------------------------------------------------------------
\* String literals of the source
\* ------------------------------------------------------------------------
kw_shocking  == <<"s","h","o","c","k","i","n","g">>
kw_exclusive == <<"e","x","c","l","u","s","i","v","e">>
kw_must_see  == <<"m","u","s","t"," ","s","e","e">>
kw_disaster  == <<"d","i","s","a","s","t","e","r">>
kw_scam      == <<"s","c","a","m">>
kw_fake_news == <<"f","a","k","e"," ","n","e","w","s">>
kw_truth     == <<"t","r","u","t","h">>
kw_exposed   == <<"e","x","p","o","s","e","d">>
kw_viral     == <<"v","i","r","a","l">>

s_blogspot   == <<"b","l","o","g","s","p","o","t">>
s_wordpress  == <<"w","o","r","d","p","r","e","s","s">>
s_dot_co     == <<".","c","o">>
s_hoax       == <<"h","o","a","x">>
s_conspiracy == <<"c","o","n","s","p","i","r","a","c","y">>
s_rumor      == <<"r","u","m","o","r">>
s_space      == <<" ">>

\* self.sensational_keywords, in insertion order (the same table in both
\* copies)
sensational_keywords ==
    << [keyword |-> kw_shocking,  weight |-> 25 * Cent],
       [keyword |-> kw_exclusive, weight |-> 15 * Cent],
       [keyword |-> kw_must_see,  weight |-> 20 * Cent],
       [keyword |-> kw_disaster,  weight |-> 10 * Cent],
       [keyword |-> kw_scam,      weight |-> 30 * Cent],
       [keyword |-> kw_fake_news, weight |-> -(50 * Cent)],
       [keyword |-> kw_truth,     weight |-> 5 * Cent],
       [keyword |-> kw_exposed,   weight |-> 22 * Cent],
       [keyword |-> kw_viral,     weight |-> 18 * Cent] >>

MISINFO_THRESHOLD == 55 * Cent
MANIPULATION_THRESHOLD == 70 * Cent

\* the attributes FalseNewsChecker.__init__ sets on self
FalseNewsChecker_init ==
    [sensational_keywords |-> sensational_keywords,
     MISINFO_THRESHOLD |-> MISINFO_THRESHOLD,
     MANIPULATION_THRESHOLD |-> MANIPULATION_THRESHOLD]

bad_patterns == <<s_hoax, s_conspiracy, s_rumor>>

VERIFIED == "VERIFIED (Low Risk)"
CAUTION == "CAUTION ADVISED (High Bias/Uncertainty)"
HIGH_RISK == "HIGH MISINFORMATION RISK"

\* ------------------------------------------------------------------------
\* f"{x:.2f}": sign and the number of hundredths printed.  A value exactly
\* half way between two hundredths goes to the even one.
\* ------------------------------------------------------------------------
Abs(x) == IF x < 0 THEN -x ELSE x

\* mutant: the digits after the second decimal are cut off, not rounded
M_fmt2_truncate(x) ==
    [neg |-> x < 0, hundredths |-> Abs(x) \div Cent]


Fmt2(x) ==
    LET a == Abs(x)
        q == a \div Cent
        rem == a % Cent
        h == IF 2 * rem > Cent THEN q + 1
             ELSE IF 2 * rem < Cent THEN q
             ELSE IF q % 2 = 0 THEN q ELSE q + 1
    IN  [neg |-> x < 0, hundredths |-> h]

\* float(s) of a rendered string
ParseFmt2(f) == IF f.neg THEN -(f.hundredths * Cent) ELSE f.hundredths * Cent

\* ------------------------------------------------------------------------
\* The checker objects
\* ------------------------------------------------------------------------
VARIABLES
    app_self,        \* the attributes of the checker object of app.py
    cli_self         \* the attributes of the checker object of the script

\* ------------------------------------------------------------------------
\* The web-app copy (src/app.py)
\* ------------------------------------------------------------------------

\* the for loop over self.sensational_keywords.items(), entries k..9
RECURSIVE app_keyword_loop(_, _, _)
app_keyword_loop(text, bias_score, k) ==
    IF k > Len(app_self.sensational_keywords) THEN bias_score
    ELSE LET count == str_count(text, app_self.sensational_keywords[k].keyword)
         IN  app_keyword_loop(text,
                 bias_score + count * app_self.sensational_keywords[k].weight,
                 k + 1)

\* mutant: ".co" is looked for anywhere in the url, not at its end
M_low_authority_contains_co(url) ==
    str_in(s_blogspot, url) \/ str_in(s_wordpress, url)
        \/ str_in(s_dot_co, url)


app_low_authority(url) ==
    str_in(s_blogspot, url) \/ str_in(s_wordpress, url)
        \/ str_endswith(url, s_dot_co)

\* mutant: the patterns are looked for in url.lower()
M_bad_pattern_lowered(url) ==
    \E j \in 1..Len(bad_patterns) : str_in(bad_patterns[j], str_lower(url))


app_bad_pattern(url) ==
    \E j \in 1..Len(bad_patterns) : str_in(bad_patterns[j], url)

\* mutant: the two domain penalties are swapped
M_bias_swapped_penalties(url, content) ==
    LET text == str_lower(url \o s_space \o content)
        b1 == app_keyword_loop(text, 0, 1)
        b2 == IF app_low_authority(url) THEN b1 + 40 * Cent ELSE b1
        b3 == IF app_bad_pattern(url) THEN b2 + 30 * Cent ELSE b2
    IN  b3


app_bias_score(url, content) ==
    LET text == str_lower(url \o s_space \o content)
        b1 == app_keyword_loop(text, 0, 1)
        b2 == IF app_low_authority(url) THEN b1 + 30 * Cent ELSE b1
        b3 == IF app_bad_pattern(url) THEN b2 + 40 * Cent ELSE b2
    IN  b3

\* mutant: the upper clamp min(..., 1.0) is missing
M_text_no_upper_clamp(url, content) ==
    FDiv(app_bias_score(url, content), 250 * Cent)


app_analyze_text_for_bias(url, content) ==
    FMin(FDiv(app_bias_score(url, content), 250 * Cent), One)

\* mutant: the draw is compared with <= instead of <
M_image_nonstrict_draw(file_size_kb, noise_factor, r) ==
    LET m1 == FMul(noise_factor, 45 * Cent)
        m2 == IF file_size_kb < 100 /\ noise_factor > 50 * Cent
              THEN m1 + 35 * Cent ELSE m1
        m3 == IF r <= noise_factor THEN m2 + 20 * Cent ELSE m2
    IN  FMin(m3, One)

\* r is the value random.random() returns in this call
app_analyze_image_for_manipulation(file_size_kb, noise_factor, r) ==
    LET m1 == FMul(noise_factor, 45 * Cent)
        m2 == IF file_size_kb < 100 /\ noise_factor > 50 * Cent
              THEN m1 + 35 * Cent ELSE m1
        m3 == IF r < noise_factor THEN m2 + 20 * Cent ELSE m2
    IN  FMin(m3, One)


\* None is modelled as the empty tuple.  `if image_features:` -- None is
\* falsy, every 2-tuple is truthy
None == <<>>
\* mutant: a pair of zeros counts as absent, as `if any(image_features)`
\* would make it
M_truthy_any(image_features) ==
    Len(image_features) > 0
        /\ (image_features[1] # 0 \/ image_features[2] # 0)


truthy(image_features) == Len(image_features) > 0

\* no call of check has been made for the current request
NoResult == [called |-> FALSE]

\* mutant: the comparison with MISINFO_THRESHOLD is >= instead of >
M_verdict_nonstrict(final_misinfo_score) ==
    IF final_misinfo_score > app_self.MANIPULATION_THRESHOLD THEN HIGH_RISK
    ELSE IF final_misinfo_score >= app_self.MISINFO_THRESHOLD THEN CAUTION
    ELSE VERIFIED


app_verdict(final_misinfo_score) ==
    IF final_misinfo_score > app_self.MANIPULATION_THRESHOLD THEN HIGH_RISK
    ELSE IF final_misinfo_score > app_self.MISINFO_THRESHOLD THEN CAUTION
    ELSE VERIFIED

\* mutant: the text score is weighted 0.5 instead of 0.6
M_final_text_weight_half(text_score, image_score, image_features) ==
    LET weight_image == IF truthy(image_features) THEN 40 * Cent ELSE 0
    IN  FMul(text_score, 50 * Cent) + FMul(image_score, weight_image)
            + FMul(text_score, 40 * Cent - weight_image)

\* mutant: the text fallback term text_score * (0.4 - weight_image) is
\* missing
M_final_no_text_fallback(text_score, image_score, image_features) ==
    LET weight_image == IF truthy(image_features) THEN 40 * Cent ELSE 0
    IN  FMul(text_score, 60 * Cent) + FMul(image_score, weight_image)


app_final_misinfo_score(text_score, image_score, image_features) ==
    LET weight_image == IF truthy(image_features) THEN 40 * Cent ELSE 0
    IN  FMul(text_score, 60 * Cent) + FMul(image_score, weight_image)
            + FMul(text_score, 40 * Cent - weight_image)


\* the random.random() calls one _analyze_image_for_manipulation call makes
\* mutant: the draw is skipped when noise_factor is not positive, as
\* `if noise_factor > 0 and random.random() < noise_factor` would do
M_image_draws_guarded(file_size_kb, noise_factor) ==
    LET in_noise_term == 0
        in_size_term == 0
        in_metadata_term == IF noise_factor > 0 THEN 1 ELSE 0
    IN  in_noise_term + in_size_term + in_metadata_term


app_image_draws(file_size_kb, noise_factor) ==
    LET in_noise_term == 0       \* manipulation_score += noise_factor * 0.45
        in_size_term == 0        \* if file_size_kb < 100 and noise_factor > 0.5
        in_metadata_term == 1    \* if random.random() < noise_factor
    IN  in_noise_term + in_size_term + in_metadata_term

\* the random.random() calls _analyze_text_for_bias makes
app_text_draws(url, content) ==
    LET in_keyword_loop == 0
        in_domain_checks == 0
    IN  in_keyword_loop + in_domain_checks

\* the attributes of self when check returns: check and the two analyses
\* read them and assign none
\* mutant: check raises MISINFO_THRESHOLD to MANIPULATION_THRESHOLD
M_self_thresholds_merged(self) ==
    [self EXCEPT !.MISINFO_THRESHOLD = self.MANIPULATION_THRESHOLD]


app_check_self(self) == self

\* ------------------------------------------------------------------------
\* The JSON values run_false_news_check reads with data.get, and int() and
\* float() of them
\* ------------------------------------------------------------------------
\* a number beyond every threshold of the scorer: stands for float('inf')
\* and for an integer of 400 digits
Huge == 2147483647

\* a missing field or a JSON null: data.get returns None
json_null == [kind |-> "null", v |-> 0]
\* the JSON integer n
json_int(n) == [kind |-> "int", v |-> n]
\* the JSON number x (fixed-point)
json_float(x) == [kind |-> "float", v |-> x]
\* a JSON string that is no numeral, "abc"
json_str == [kind |-> "str", v |-> 0]
\* a JSON array
json_list == [kind |-> "list", v |-> 0]
\* the JSON number 1e400, which json.loads gives as float('inf')
json_inf == [kind |-> "inf", v |-> Huge]
\* a JSON integer of 400 digits, which json.loads gives as an int
json_bigint == [kind |-> "bigint", v |-> Huge]

\* int(x): the value, or the exception int raises
py_int(x) ==
    CASE x.kind = "int" -> [exc |-> "none", v |-> x.v]
      [] x.kind = "float" ->
            [exc |-> "none",
             v |-> IF x.v < 0 THEN -((-x.v) \div One) ELSE x.v \div One]
      [] x.kind = "bigint" -> [exc |-> "none", v |-> x.v]
      [] x.kind = "inf" -> [exc |-> "OverflowError", v |-> 0]
      [] x.kind = "str" -> [exc |-> "ValueError", v |-> 0]
      [] OTHER -> [exc |-> "TypeError", v |-> 0]

\* float(x): the value, or the exception float raises
py_float(x) ==
    CASE x.kind = "int" -> [exc |-> "none", v |-> x.v * One]
      [] x.kind = "float" -> [exc |-> "none", v |-> x.v]
      [] x.kind = "inf" -> [exc |-> "none", v |-> x.v]
      [] x.kind = "bigint" -> [exc |-> "OverflowError", v |-> 0]
      [] x.kind = "str" -> [exc |-> "ValueError", v |-> 0]
      [] OTHER -> [exc |-> "TypeError", v |-> 0]

\* the try block of run_false_news_check: image_features when the block is
\* left, and the exception that leaves the function ("none" when the block
\* completes or the except clause catches)
app_coerce(file_size_kb, noise_factor) ==
    IF file_size_kb.kind # "null" /\ noise_factor.kind # "null"
    THEN LET i == py_int(file_size_kb)
             f == py_float(noise_factor)
             exc == IF i.exc # "none" THEN i.exc ELSE f.exc
         IN  IF exc = "none"
             THEN [raised |-> "none", image_features |-> <<i.v, f.v>>]
             ELSE IF exc \in {"ValueError", "TypeError"}
             THEN [raised |-> "none", image_features |-> None]
             ELSE [raised |-> exc, image_features |-> None]
    ELSE [raised |-> "none", image_features |-> None]

\* ------------------------------------------------------------------------
\* The standalone copy (src/falseNewsChecker.py)
\* ------------------------------------------------------------------------
RECURSIVE cli_keyword_loop(_, _, _)
cli_keyword_loop(text, bias_score, k) ==
    IF k > Len(cli_self.sensational_keywords) THEN bias_score
    ELSE LET count == str_count(text, cli_self.sensational_keywords[k].keyword)
         IN  cli_keyword_loop(text,
                 bias_score + count * cli_self.sensational_keywords[k].weight,
                 k + 1)

cli_low_authority(url) ==
    str_in(s_blogspot, url) \/ str_in(s_wordpress, url)
        \/ str_endswith(url, s_dot_co)

cli_bad_pattern(url) ==
    \E j \in 1..Len(bad_patterns) : str_in(bad_patterns[j], url)

\* mutant: url and content are joined without the space
M_bias_no_space(url, content) ==
    LET text == str_lower(url \o content)
        b1 == cli_keyword_loop(text, 0, 1)
        b2 == IF cli_low_authority(url) THEN b1 + 30 * Cent ELSE b1
        b3 == IF cli_bad_pattern(url) THEN b2 + 40 * Cent ELSE b2
    IN  b3


cli_bias_score(url, content) ==
    LET text == str_lower(url \o s_space \o content)
        b1 == cli_keyword_loop(text, 0, 1)
        b2 == IF cli_low_authority(url) THEN b1 + 30 * Cent ELSE b1
        b3 == IF cli_bad_pattern(url) THEN b2 + 40 * Cent ELSE b2
    IN  b3

\* mutant: the score is clamped below at 0 as well
M_text_clamped_below(url, content) ==
    LET final_score == FMin(FDiv(cli_bias_score(url, content), 250 * Cent), One)
    IN  IF final_score < 0 THEN 0 ELSE final_score


cli_analyze_text_for_bias(url, content) ==
    FMin(FDiv(cli_bias_score(url, content), 250 * Cent), One)

\* mutant: the noise factor is compared with >= 0.5 instead of > 0.5
M_image_nonstrict_noise(file_size_kb, noise_factor, r) ==
    LET m1 == FMul(noise_factor, 45 * Cent)
        m2 == IF file_size_kb < 100 /\ noise_factor >= 50 * Cent
              THEN m1 + 35 * Cent ELSE m1
        m3 == IF r < noise_factor THEN m2 + 20 * Cent ELSE m2
    IN  FMin(m3, One)


cli_analyze_image_for_manipulation(file_size_kb, noise_factor, r) ==
    LET m1 == FMul(noise_factor, 45 * Cent)
        m2 == IF file_size_kb < 100 /\ noise_factor > 50 * Cent
              THEN m1 + 35 * Cent ELSE m1
        m3 == IF r < noise_factor THEN m2 + 20 * Cent ELSE m2
    IN  FMin(m3, One)

\* mutant: the two thresholds are swapped
M_verdict_thresholds_swapped(final_misinfo_score) ==
    IF final_misinfo_score > cli_self.MISINFO_THRESHOLD THEN HIGH_RISK
    ELSE IF final_misinfo_score > cli_self.MANIPULATION_THRESHOLD THEN CAUTION
    ELSE VERIFIED


cli_verdict(final_misinfo_score) ==
    IF final_misinfo_score > cli_self.MANIPULATION_THRESHOLD THEN HIGH_RISK
    ELSE IF final_misinfo_score > cli_self.MISINFO_THRESHOLD THEN CAUTION
    ELSE VERIFIED

\* mutant: the image score is weighted 0.5 instead of 0.4
M_final_image_weight_half(text_score, image_score, image_features) ==
    FMul(text_score, 60 * Cent)
        + (IF truthy(image_features) THEN FMul(image_score, 50 * Cent)
           ELSE text_score)


cli_final_misinfo_score(text_score, image_score, image_features) ==
    FMul(text_score, 60 * Cent)
        + (IF truthy(image_features) THEN FMul(image_score, 40 * Cent)
           ELSE text_score)


cli_image_draws(file_size_kb, noise_factor) ==
    LET in_noise_term == 0
        in_size_term == 0
        in_metadata_term == 1
    IN  in_noise_term + in_size_term + in_metadata_term

cli_text_draws(url, content) ==
    LET in_keyword_loop == 0
        in_domain_checks == 0
    IN  in_keyword_loop + in_domain_checks

\* mutant: check lowers MISINFO_THRESHOLD to 0.40 for the calls that follow
M_self_threshold_adapts(self) ==
    [self EXCEPT !.MISINFO_THRESHOLD = 40 * Cent]


cli_check_self(self) == self

\* user_image_features of the script: the pair when the user asks for the
\* image analysis and types two numerals, None otherwise.  The user of the
\* model types the numbers of the JSON fields when both are numbers and
\* declines the image analysis when they are not.
user_image_features(fields) ==
    IF fields[1].kind = "int" /\ fields[2].kind = "float"
    THEN <<fields[1].v, fields[2].v>>
    ELSE None

\* ------------------------------------------------------------------------
\* Inputs
\* ------------------------------------------------------------------------
MaxUrlRep == 3
MaxRep == 7

\* a url is one of these fragments repeated at most MaxUrlRep times,
\* followed by at most one more fragment
UrlFrags == {kw_scam, kw_fake_news, s_blogspot, s_hoax, s_dot_co}

\* a content is one of these fragments, repeated at most MaxRep times
ContentFrags == {kw_scam, kw_shocking, kw_fake_news, s_hoax}

\* the content fragments of the requests that carry image features
ImgContentFrags == {kw_scam, kw_shocking}

RECURSIVE Rep(_, _)
Rep(w, k) == IF k = 0 THEN <<>> ELSE w \o Rep(w, k - 1)

Urls ==
    {Rep(f, k) \o g : f \in UrlFrags, k \in 0..MaxUrlRep,
                      g \in UrlFrags \cup {<<>>}}
Contents == {Rep(w, k) : w \in ContentFrags, k \in 0..MaxRep}

\* the urls and contents of the requests that carry image features
ImgUrls == UrlFrags \cup {<<>>}
ImgContents == {Rep(w, k) : w \in ImgContentFrags, k \in 0..MaxRep}

\* file_size_kb: below and at the limit of 100
FileSizes == {0, 100}

\* noise_factor: the range [0, 1] is not enforced
NoiseFactors == {-(50 * Cent), 0, 50 * Cent, 90 * Cent, One, 150 * Cent}
ImageFeatures == FileSizes \X NoiseFactors

\* values random.random() can return: [0, 1)
Draws == {0, 50 * Cent, One - 1}

\* random.random() was not called
NoDraw == 0 - 1

\* the JSON fields of a request that supplies image features
FeatureFields == {<<json_int(f[1]), json_float(f[2])>> : f \in ImageFeatures}

\* the JSON fields of a request that supplies none
NoFields == <<json_null, json_null>>

\* fields of which one is missing or is no number the scorer can take
BadSizes == {json_null, json_str, json_list, json_inf}
BadNoises == {json_null, json_str, json_list, json_bigint}
BadFields ==
    ((BadSizes \X ({json_float(x) : x \in NoiseFactors} \cup BadNoises))
        \cup ({json_int(n) : n \in FileSizes} \X BadNoises))
        \ {NoFields}

\* the contents of the requests with such fields
BadFieldContents == {<<>>, kw_scam}

\* urls and contents that form a keyword only when they are joined
s_sca == <<"s","c","a">>
s_m == <<"m">>
s_fake == <<"f","a","k","e">>
s_news == <<"n","e","w","s">>
BoundaryRequests ==
    {<<s_sca, NoFields, s_m>>, <<s_fake, NoFields, s_news>>}

\* urls written in upper case, with a content in either case
UpperUrls ==
    {str_upper(u) :
        u \in UrlFrags \cup {s_blogspot \o s_hoax \o kw_scam \o s_dot_co}}
UpperContents == {<<>>, kw_scam, str_upper(kw_scam)}

\* a request is (url, fields, content)
Requests ==
    (Urls \X {NoFields} \X Contents)
        \cup (ImgUrls \X FeatureFields \X ImgContents)
        \cup (ImgUrls \X BadFields \X BadFieldContents)
        \cup BoundaryRequests
        \cup (UpperUrls \X {NoFields} \X UpperContents)

\* ------------------------------------------------------------------------
\* The account API (src/main.py)
\* ------------------------------------------------------------------------

\* str.strip(): the blanks at both ends are removed
RECURSIVE py_lstrip(_)
py_lstrip(s) ==
    IF s # <<>> /\ s[1] = " " THEN py_lstrip(Tail(s)) ELSE s

RECURSIVE py_rstrip(_)
py_rstrip(s) ==
    IF s # <<>> /\ s[Len(s)] = " "
    THEN py_rstrip(SubSeq(s, 1, Len(s) - 1)) ELSE s

py_strip(s) == py_rstrip(py_lstrip(s))

\* data.get('email', '').strip().lower()
normalise_email(raw_email) == str_lower(py_strip(raw_email))

\* bcrypt.hashpw(password, salt): the hash carries its salt
bcrypt_hashpw(password, salt) == [salt |-> salt, digest_of |-> password]

\* mutant: every password is accepted
M_checkpw_any(password, hashed) ==
    TRUE


\* bcrypt.checkpw(password, hashed): hashes the password with the salt of
\* the stored hash and compares
bcrypt_checkpw(password, hashed) ==
    bcrypt_hashpw(password, hashed.salt) = hashed

\* mutant: the column email is not declared UNIQUE
M_insert_without_unique(rows, fullname, email, hashed) ==
    [error |-> "none",
     rows |-> Append(rows, [id |-> Len(rows) + 1, fullname |-> fullname,
                            email |-> email, password |-> hashed])]


\* INSERT INTO users (fullname, email, password) VALUES (?, ?, ?) and the
\* commit, on the table create_table declares: email is UNIQUE, id counts
\* up.  The statement and its constraint check are one step of the
\* database.
sql_insert_user(rows, fullname, email, hashed) ==
    IF \E i \in 1..Len(rows) : rows[i].email = email
    THEN [error |-> "IntegrityError", rows |-> rows]
    ELSE [error |-> "none",
          rows |-> Append(rows, [id |-> Len(rows) + 1, fullname |-> fullname,
                                 email |-> email, password |-> hashed])]

\* SELECT * FROM users WHERE email = ? and fetchone(): the first matching
\* row, None when there is none
sql_select_user(rows, email) ==
    LET matching == {i \in 1..Len(rows) : rows[i].email = email}
    IN  IF matching = {} THEN None
        ELSE <<rows[CHOOSE i \in matching : \A j \in matching : i <= j]>>

\* a session without keys
NoSession == [user_email |-> None, user_fullname |-> None]

\* mutant: logout removes user_fullname only
M_logout_keeps_email(cookie) ==
    [cookie EXCEPT !.user_fullname = None]


\* session.clear()
session_clear(cookie) == NoSession

\* the JSON fields of the requests the model sends
RawEmails == {<<>>, <<" ">>, <<"a">>, <<" ", "A", " ">>, <<"b">>}
Passwords == {<<>>, <<"1","2","3","4","5">>, <<"s","e","c","r","e","t">>}
Fullnames == {<<>>, <<" ", "A", "l">>}

\* the salts bcrypt.gensalt() returns
Salts == {1}

\* the handlers of /api/register that can run at the same time
Workers == {1, 2}

VARIABLES
    users,        \* the rows of the table users, in insertion order
    session,      \* the session of the browser: user_email and user_fullname
    reg,          \* reg[w]: the call of api_register worker w is running
    acc_last,     \* the request answered last: its route and status
    granted       \* the email and password of the login answered 200 last,
                  \* None after a logout

acc_vars == <<users, session, reg, acc_last, granted>>

AccInit ==
    /\ users = <<>>
    /\ session = NoSession
    /\ reg = [w \in Workers |-> [pc |-> "idle"]]
    /\ acc_last = [route |-> "none", status |-> 0]
    /\ granted = None

\* ------------------------------------------------------------------------
\* The article check by url (src/check.py)
\* ------------------------------------------------------------------------
s_http == <<"h","t","t","p",":","/","/">>
s_https == <<"h","t","t","p","s",":","/","/">>
s_error_fetching ==
    <<"E","r","r","o","r"," ","f","e","t","c","h","i","n","g"," ","U","R",
      "L">>
s_unexpected_error ==
    <<"A","n"," ","u","n","e","x","p","e","c","t","e","d"," ","e","r","r",
      "o","r"," ","o","c","c","u","r","r","e","d">>
s_colon == <<":"," ">>
s_satire == <<"s","a","t","i","r","e">>

LIKELY_FAKE == "Likely FAKE/SATIRE (Placeholder Logic)"
UNCERTAIN == "UNCERTAIN (Too little content extracted)"
LIKELY_REAL == "Likely REAL (Placeholder Logic)"

str_startswith(s, p) == Len(p) <= Len(s) /\ SubSeq(s, 1, Len(p)) = p

\* s[:n]
py_slice_to(s, n) == IF Len(s) <= n THEN s ELSE SubSeq(s, 1, n)

\* ' '.join(items)
RECURSIVE str_join(_)
str_join(items) ==
    IF items = <<>> THEN <<>>
    ELSE IF Len(items) = 1 THEN items[1]
    ELSE items[1] \o <<" ">> \o str_join(Tail(items))

\* the length below which classify_text calls a text too short
ShortText == 500

\* the number of characters get_article_text keeps
KeptChars == 5000

classify_text(article) ==
    LET text_lower == str_lower(article)
    IN  IF str_in(s_hoax, text_lower) \/ str_in(s_fake, text_lower)
             \/ str_in(s_satire, text_lower)
        THEN LIKELY_FAKE
        ELSE IF Len(article) < ShortText THEN UNCERTAIN
        ELSE LIKELY_REAL

\* the url get_article_text requests
requested_url(link) ==
    IF ~(str_startswith(link, s_http) \/ str_startswith(link, s_https))
    THEN s_https \o link ELSE link

\* get_article_text: fetched is what the request of requested_url(link) and
\* the parser gave: a RequestException or another exception with its
\* message, or the texts of the p, h1, h2 and h3 elements of the page
get_article_text(link, fetched) ==
    CASE fetched.kind = "RequestException" ->
            s_error_fetching \o s_colon \o fetched.message
      [] fetched.kind = "Exception" ->
            s_unexpected_error \o s_colon \o fetched.message
      [] OTHER ->
            py_strip(py_slice_to(str_join(fetched.paragraphs), KeptChars))

\* the texts of the elements of the pages the model fetches
p_blank == <<" ">>
p_hoax == <<"A"," ","H","o","a","x">>
p_news == <<"n","e","w","s">>
p_long == [i \in 1..ShortText |-> "a"]
ParagraphTexts ==
    {<<>>, p_blank, p_hoax, p_news, p_long, s_error_fetching,
     s_unexpected_error}

\* a page has at most MaxParagraphs such elements
MaxParagraphs == 2
Pages ==
    UNION {[1..n -> ParagraphTexts] : n \in 0..MaxParagraphs}

\* the messages of the exceptions
e_timeout == <<"t","i","m","e","d"," ","o","u","t">>
e_not_found ==
    <<"4","0","4"," ","C","l","i","e","n","t"," ","E","r","r","o","r">>
Fetched ==
    {[kind |-> k, message |-> e, paragraphs |-> <<>>] :
         k \in {"RequestException", "Exception"},
         e \in {e_timeout, e_not_found}}
        \cup {[kind |-> "ok", message |-> <<>>, paragraphs |-> p] : p \in Pages}

\* the urls the user types
u_bare == <<"x",".","i","o">>
u_http == <<"h","t","t","p",":","/","/","x",".","i","o">>
u_blank == <<" ">>
TypedUrls == {u_bare, u_http, u_blank}

\* the function has not been called
NoOutcome == [kind |-> "none"]

VARIABLES
    f_pc,         \* "idle", "fetching" (check_news_authenticity_by_url was
                  \* called), "fetched" (get_article_text has returned), "done"
    user_url,     \* the url typed at the prompt
    f_fetched,    \* what the request and the parser gave
    article_content,  \* the string get_article_text returned
    f_classified, \* classify_text was called
    final_output  \* what is printed: the kind of result and its text

fetch_vars ==
    <<f_pc, user_url, f_fetched, article_content, f_classified, final_output>>

FetchInit ==
    /\ f_pc = "idle"
    /\ user_url = <<>>
    /\ f_fetched = NoOutcome
    /\ article_content = <<>>
    /\ f_classified = FALSE
    /\ final_output = NoOutcome

\* ------------------------------------------------------------------------
\* State of a request
\* ------------------------------------------------------------------------
VARIABLES
    pc,              \* "idle": no request; "checking": a request is being checked
    url,             \* the url of the current request
    content,         \* its content
    raw,             \* its JSON fields <<file_size_kb, noise_factor>>
    image_features,  \* the features the standalone script passes to check:
                     \* None or <<file_size_kb, noise_factor>>
    app,             \* the web-app check of the request: NoResult or the
                     \* record AppCheck writes
    status,          \* the HTTP status of the answer of POST /check, 0 while
                     \* there is none
    cli,             \* the standalone check of the request: NoResult or the
                     \* record CliCheck writes
    last             \* the answers to the previous request while the current
                     \* request repeats it, NoResult otherwise

vars == <<pc, url, content, raw, image_features, app_self, cli_self, app,
          status, cli, last>>

\* ------------------------------------------------------------------------
\* Initial state and actions
\* ------------------------------------------------------------------------
Init ==
    /\ pc = "idle"
    /\ url = <<>>
    /\ content = <<>>
    /\ raw = NoFields
    /\ image_features = None
    /\ app_self = FalseNewsChecker_init
    /\ cli_self = FalseNewsChecker_init
    /\ app = NoResult
    /\ status = 0
    /\ cli = NoResult
    /\ last = NoResult
    /\ AccInit
    /\ FetchInit

\* a request arrives: the JSON body of POST /check, and the answers typed at
\* the prompts of the standalone script
Submit ==
    /\ pc = "idle"
    /\ pc' = "checking"
    /\ \E req \in Requests :
          /\ url' = req[1]
          /\ raw' = req[2]
          /\ image_features' = user_image_features(req[2])
          /\ content' = req[3]
    /\ UNCHANGED <<app_self, cli_self, app, status, cli, last>>
    /\ UNCHANGED <<acc_vars, fetch_vars>>

\* run_false_news_check of app.py: the coercion of the two fields, then
\* checker.check(url=url, content=content, image_features=image_features)
\* and jsonify.  An exception that leaves the function is answered with
\* status 500 and check is not called.  app holds the argument and the
\* locals of check and the dict it returns (result); r is the value
\* random.random() returns, NoDraw when it is not called.  Each local is
\* bound once, to the value the code assigns to it.
AppCheck ==
    /\ pc = "checking"
    /\ status = 0
    /\ \E c \in {app_coerce(raw[1], raw[2])} :
       IF c.raised # "none"
       THEN /\ status' = 500
            /\ UNCHANGED <<app, app_self>>
       ELSE
       /\ status' = 200
       /\ app_self' = app_check_self(app_self)
       /\ \E features \in {c.image_features} :
          \E text_score \in {app_analyze_text_for_bias(url, content)} :
          \E r \in (IF truthy(features) THEN Draws ELSE {NoDraw}) :
          \E image_score \in
                {IF truthy(features)
                 THEN app_analyze_image_for_manipulation(
                          features[1], features[2], r)
                 ELSE 0} :
          \E final_misinfo_score \in
                {app_final_misinfo_score(text_score, image_score, features)} :
          \E verdict \in {app_verdict(final_misinfo_score)} :
                 app' = [called |-> TRUE,
                         image_features |-> features,
                         text_score |-> text_score,
                         image_score |-> image_score,
                         final_misinfo_score |-> final_misinfo_score,
                         verdict |-> verdict,
                         r |-> r,
                         text_draws |-> app_text_draws(url, content),
                         image_draws |->
                             IF truthy(features)
                             THEN app_image_draws(features[1], features[2])
                             ELSE 0,
                         result |-> [verdict |-> verdict,
                                     score |-> Fmt2(final_misinfo_score),
                                     text_score |-> Fmt2(text_score),
                                     image_score |-> Fmt2(image_score)]]
    /\ UNCHANGED <<pc, url, content, raw, image_features, cli_self, cli, last>>
    /\ UNCHANGED <<acc_vars, fetch_vars>>

\* FalseNewsChecker.check of falseNewsChecker.py, called by the script as
\* checker.check(url=user_url, content=user_content,
\* image_features=user_image_features).  cli holds the locals of the call
\* and the two fields of the string it returns (result).
CliCheck ==
    /\ pc = "checking"
    /\ ~cli.called
    /\ cli_self' = cli_check_self(cli_self)
    /\ \E text_score \in {cli_analyze_text_for_bias(url, content)} :
       \E r \in (IF truthy(image_features) THEN Draws ELSE {NoDraw}) :
       \E image_score \in
             {IF truthy(image_features)
              THEN cli_analyze_image_for_manipulation(
                       image_features[1], image_features[2], r)
              ELSE 0} :
       \E final_misinfo_score \in
             {cli_final_misinfo_score(text_score, image_score,
                                      image_features)} :
       \E verdict \in {cli_verdict(final_misinfo_score)} :
                 cli' = [called |-> TRUE,
                         text_score |-> text_score,
                         image_score |-> image_score,
                         final_misinfo_score |-> final_misinfo_score,
                         verdict |-> verdict,
                         r |-> r,
                         text_draws |-> cli_text_draws(url, content),
                         image_draws |->
                             IF truthy(image_features)
                             THEN cli_image_draws(image_features[1],
                                                  image_features[2])
                             ELSE 0,
                         result |-> [score |-> Fmt2(final_misinfo_score),
                                     verdict |-> verdict]]
    /\ UNCHANGED <<pc, url, content, raw, image_features, app_self, app,
                   status, last>>
    /\ UNCHANGED <<acc_vars, fetch_vars>>

\* the request that was just answered is sent again, to both programs; its
\* answers are kept in last.  The requests with an empty content are the ones
\* repeated.
Repeat ==
    /\ pc = "checking"
    /\ status # 0
    /\ cli.called
    /\ ~last.called
    /\ content = <<>>
    /\ last' = [called |-> TRUE, app |-> app, status |-> status, cli |-> cli]
    /\ app' = NoResult
    /\ status' = 0
    /\ cli' = NoResult
    /\ UNCHANGED <<pc, url, content, raw, image_features, app_self, cli_self>>
    /\ UNCHANGED <<acc_vars, fetch_vars>>

\* both programs have answered; the next request can arrive
Done ==
    /\ pc = "checking"
    /\ status # 0
    /\ cli.called
    /\ pc' = "idle"
    /\ url' = <<>>
    /\ content' = <<>>
    /\ raw' = NoFields
    /\ image_features' = None
    /\ app' = NoResult
    /\ status' = 0
    /\ cli' = NoResult
    /\ last' = NoResult
    /\ UNCHANGED <<app_self, cli_self>>
    /\ UNCHANGED <<acc_vars, fetch_vars>>

Next == Submit \/ AppCheck \/ CliCheck \/ Repeat \/ Done

Spec == Init /\ [][Next]_vars

\* api_register up to the INSERT: the fields are read, the request is
\* answered 400 or the password is hashed.  fresh and overlap record
\* whether the email was unregistered and whether the other worker was
\* about to insert the same email at this moment.
RegisterBegin(w) ==
    /\ reg[w].pc = "idle"
    /\ \E raw_fullname \in Fullnames, raw_email \in RawEmails,
          password \in Passwords, salt \in Salts :
       \E fullname \in {py_strip(raw_fullname)} :
       \E email \in {normalise_email(raw_email)} :
          IF email = <<>> \/ password = <<>> \/ Len(password) < 6
          THEN /\ reg' = [reg EXCEPT ![w] =
                             [pc |-> "answered", status |-> 400,
                              email |-> email, inserted |-> FALSE,
                              fresh |-> FALSE, overlap |-> FALSE]]
               /\ acc_last' = [route |-> "register", status |-> 400]
          ELSE \E hashed \in {bcrypt_hashpw(password, salt)} :
               \E overlap \in
                     {\E v \in Workers \ {w} :
                          reg[v].pc = "insert" /\ reg[v].email = email} :
               /\ reg' = [v \in Workers |->
                            IF v = w
                            THEN [pc |-> "insert", fullname |-> fullname,
                                  email |-> email, hashed |-> hashed,
                                  fresh |-> sql_select_user(users, email) = None,
                                  overlap |-> overlap]
                            ELSE IF reg[v].pc = "insert" /\ reg[v].email = email
                            THEN [reg[v] EXCEPT !.overlap = TRUE]
                            ELSE reg[v]]
               /\ UNCHANGED acc_last
    /\ UNCHANGED <<users, session, granted>>
    /\ UNCHANGED <<vars, fetch_vars>>

\* api_register from the INSERT on: the row is inserted and the request
\* answered 201, or the IntegrityError is caught and it is answered 409
RegisterInsert(w) ==
    /\ reg[w].pc = "insert"
    /\ \E done \in {sql_insert_user(users, reg[w].fullname, reg[w].email,
                                    reg[w].hashed)} :
       \E code \in {IF done.error = "IntegrityError" THEN 409 ELSE 201} :
          /\ users' = done.rows
          /\ reg' = [reg EXCEPT ![w] =
                        [pc |-> "answered", status |-> code,
                         email |-> reg[w].email,
                         inserted |-> done.rows # users,
                         fresh |-> reg[w].fresh, overlap |-> reg[w].overlap]]
          /\ acc_last' = [route |-> "register", status |-> code]
    /\ UNCHANGED <<session, granted>>
    /\ UNCHANGED <<vars, fetch_vars>>

\* the answer of worker w has been sent; the worker takes the next request
RegisterReturn(w) ==
    /\ reg[w].pc = "answered"
    /\ reg' = [reg EXCEPT ![w] = [pc |-> "idle"]]
    /\ UNCHANGED <<users, session, acc_last, granted>>
    /\ UNCHANGED <<vars, fetch_vars>>

\* api_login
Login ==
    /\ \E raw_email \in RawEmails, password \in Passwords :
       \E email \in {normalise_email(raw_email)} :
          IF email = <<>> \/ password = <<>>
          THEN /\ acc_last' = [route |-> "login", status |-> 400]
               /\ UNCHANGED <<session, granted>>
          ELSE \E row \in {sql_select_user(users, email)} :
               IF row = None
               THEN /\ acc_last' = [route |-> "login", status |-> 401]
                    /\ UNCHANGED <<session, granted>>
               ELSE IF bcrypt_checkpw(password, row[1].password)
               THEN /\ session' =
                          [user_email |-> email,
                           user_fullname |->
                               IF row[1].fullname # <<>>
                               THEN row[1].fullname ELSE email]
                    /\ acc_last' = [route |-> "login", status |-> 200]
                    /\ granted' = <<email, password>>
               ELSE /\ acc_last' = [route |-> "login", status |-> 401]
                    /\ UNCHANGED <<session, granted>>
    /\ UNCHANGED <<users, reg>>
    /\ UNCHANGED <<vars, fetch_vars>>

\* logout
Logout ==
    /\ session' = session_clear(session)
    /\ acc_last' = [route |-> "logout", status |-> 302]
    /\ granted' = None
    /\ UNCHANGED <<users, reg>>
    /\ UNCHANGED <<vars, fetch_vars>>

AccNext ==
    \/ \E w \in Workers : RegisterBegin(w)
    \/ \E w \in Workers : RegisterInsert(w)
    \/ \E w \in Workers : RegisterReturn(w)
    \/ Login
    \/ Logout

AccSpec == Init /\ [][AccNext]_acc_vars

\* the main block of check.py: the url is read; a blank url is refused, any
\* other is handed to check_news_authenticity_by_url
TypeUrl ==
    /\ f_pc = "idle"
    /\ \E typed \in TypedUrls :
          /\ user_url' = typed
          /\ IF py_strip(typed) = <<>>
             THEN /\ f_pc' = "done"
                  /\ final_output' = [kind |-> "refused"]
             ELSE /\ f_pc' = "fetching"
                  /\ UNCHANGED final_output
    /\ UNCHANGED <<f_fetched, article_content, f_classified>>
    /\ UNCHANGED <<vars, acc_vars>>

\* article_content = get_article_text(url), for every outcome of the
\* request
GetArticleText ==
    /\ f_pc = "fetching"
    /\ \E fetched \in Fetched :
          /\ f_fetched' = fetched
          /\ article_content' = get_article_text(user_url, fetched)
    /\ f_pc' = "fetched"
    /\ UNCHANGED <<user_url, f_classified, final_output>>
    /\ UNCHANGED <<vars, acc_vars>>

\* check_news_authenticity_by_url from its first test to its return
Analyse ==
    /\ f_pc = "fetched"
    /\ f_pc' = "done"
    /\ IF str_in(s_error_fetching, article_content)
           \/ str_in(s_unexpected_error, article_content)
       THEN /\ final_output' = [kind |-> "Analysis Failed",
                                detail |-> article_content]
            /\ UNCHANGED f_classified
       ELSE IF article_content = <<>>
       THEN /\ final_output' = [kind |-> "Analysis Failed", detail |-> <<>>]
            /\ UNCHANGED f_classified
       ELSE /\ f_classified' = TRUE
            /\ final_output' = [kind |-> "CLASSIFICATION RESULT",
                                url |-> user_url,
                                result |-> classify_text(article_content)]
    /\ UNCHANGED <<user_url, f_fetched, article_content>>
    /\ UNCHANGED <<vars, acc_vars>>

\* the script has printed its output; it is run again
FetchDone ==
    /\ f_pc = "done"
    /\ f_pc' = "idle"
    /\ user_url' = <<>>
    /\ f_fetched' = NoOutcome
    /\ article_content' = <<>>
    /\ f_classified' = FALSE
    /\ final_output' = NoOutcome
    /\ UNCHANGED <<vars, acc_vars>>

FetchNext == TypeUrl \/ GetArticleText \/ Analyse \/ FetchDone

FetchSpec == Init /\ [][FetchNext]_fetch_vars

\* ------------------------------------------------------------------------
\* Representation check: every value the checks compute is exact in the
\* fixed-point representation (no division of the model ever rounded)
\* ------------------------------------------------------------------------
TextExact(u, c) ==
    /\ (app_bias_score(u, c) * One) % (250 * Cent) = 0
    /\ (cli_bias_score(u, c) * One) % (250 * Cent) = 0

BlendExact(res) ==
    res.called =>
        /\ (res.text_score * 60 * Cent) % One = 0
        /\ (res.text_score * 40 * Cent) % One = 0
        /\ (res.image_score * 40 * Cent) % One = 0

ExactArithmetic ==
    /\ pc = "checking" => TextExact(url, content)
    /\ truthy(image_features) => (image_features[2] * 45 * Cent) % One = 0
    /\ BlendExact(app)
    /\ BlendExact(cli)

\* ------------------------------------------------------------------------
\* Properties
\* ------------------------------------------------------------------------
\* image features were supplied with the current request
FeaturesPresent == Len(image_features) = 2

\* C1: the overall score check computes lies in [0, 1], in both copies.
\* Fails: a negative text score makes it negative, and the standalone copy
\* computes 1.6 * text_score when image features are absent.
C1_OverallScoreInUnitInterval ==
    /\ app.called =>
          app.final_misinfo_score >= 0 /\ app.final_misinfo_score <= One
    /\ cli.called =>
          cli.final_misinfo_score >= 0 /\ cli.final_misinfo_score <= One

\* C2: score_text returns a value <= 1.0 for every url and content.
C2_TextScoreAtMostOne ==
    /\ app.called => app.text_score <= One
    /\ cli.called => cli.text_score <= One

\* the accumulator exceeds 2.5 and the clamp has cut the score to 1.0
C2_Witness ==
    /\ app.called
    /\ cli.called
    /\ app_bias_score(url, content) > 250 * Cent
    /\ app.text_score = One
    /\ cli.text_score = One

\* C3: score_image returns a value in [0, 1.0] for every file size, every
\* noise factor it accepts and every draw.  Fails for a negative noise
\* factor.
C3_ImageScoreInUnitInterval ==
    /\ (app.called /\ FeaturesPresent) =>
          app.image_score >= 0 /\ app.image_score <= One
    /\ (cli.called /\ FeaturesPresent) =>
          cli.image_score >= 0 /\ cli.image_score <= One

\* the verdict the claim assigns to an overall score
C4_VerdictOf(final) ==
    IF final > 70 * Cent THEN HIGH_RISK
    ELSE IF final > 55 * Cent /\ final <= 70 * Cent THEN CAUTION
    ELSE VERIFIED

\* C4: final > 0.70 gives high risk, 0.55 < final <= 0.70 gives caution,
\* final <= 0.55 gives verified, decided on the unrounded score.
C4_VerdictByStrictThresholds ==
    /\ app.called =>
          /\ app.verdict = C4_VerdictOf(app.final_misinfo_score)
          /\ app.result.verdict = app.verdict
    /\ cli.called =>
          /\ cli.verdict = C4_VerdictOf(cli.final_misinfo_score)
          /\ cli.result.verdict = cli.verdict

\* an overall score of exactly 0.55 was given the verified verdict
C4_Witness ==
    /\ app.called
    /\ app.final_misinfo_score = 55 * Cent
    /\ app.verdict = VERIFIED

\* C5: with image features supplied, (0, 0.0) included, the overall score
\* is text_score * 0.6 + image_score * 0.4, image_score being what
\* score_image returned in the same call.
C5_BlendWithImage ==
    /\ (app.called /\ FeaturesPresent) =>
          /\ app.r \in Draws
          /\ app.image_score = app_analyze_image_for_manipulation(
                                   image_features[1], image_features[2], app.r)
          /\ 10 * app.final_misinfo_score
                = 6 * app.text_score + 4 * app.image_score
    /\ (cli.called /\ FeaturesPresent) =>
          /\ cli.r \in Draws
          /\ cli.image_score = cli_analyze_image_for_manipulation(
                                   image_features[1], image_features[2], cli.r)
          /\ 10 * cli.final_misinfo_score
                = 6 * cli.text_score + 4 * cli.image_score

\* both copies have checked a request with the features (0, 0.0) and a
\* text score that is not zero
C5_Witness ==
    /\ image_features = <<0, 0>>
    /\ app.called
    /\ cli.called
    /\ app.text_score # 0
    /\ cli.text_score # 0

\* C6: in app.py, with image features absent, no image analysis runs,
\* image_score is 0.0 and renders as "0.00", the overall score equals
\* text_score and the rendered score and text_score are identical.
C6_AppTextOnly ==
    (app.called /\ ~FeaturesPresent) =>
        /\ app.r = NoDraw
        /\ app.image_score = 0
        /\ app.result.image_score = [neg |-> FALSE, hundredths |-> 0]
        /\ app.final_misinfo_score = app.text_score
        /\ app.result.score = app.result.text_score

\* a request without image features and with a text score above zero was
\* checked by the web app
C6_Witness ==
    /\ app.called
    /\ ~FeaturesPresent
    /\ app.text_score > 0
    /\ app.result.score = app.result.text_score
    /\ app.result.score.hundredths > 0

\* C7: with image features absent the standalone check computes the same
\* overall score as the web-app check, final = text_score, and the same
\* verdict.  Fails: the standalone copy computes text_score * 0.6 +
\* text_score.
C7_CliEqualsAppTextOnly ==
    (app.called /\ cli.called /\ ~FeaturesPresent) =>
        /\ cli.final_misinfo_score = cli.text_score
        /\ cli.final_misinfo_score = app.final_misinfo_score
        /\ cli.verdict = app.verdict

\* the text score_text scans
C8_Scanned == str_lower(url \o s_space \o content)

\* the accumulator A of the claim, for the scanned text
C8_A(text) ==
    str_count(text, kw_shocking) * 25 * Cent
        + str_count(text, kw_exclusive) * 15 * Cent
        + str_count(text, kw_must_see) * 20 * Cent
        + str_count(text, kw_disaster) * 10 * Cent
        + str_count(text, kw_scam) * 30 * Cent
        - str_count(text, kw_fake_news) * 50 * Cent
        + str_count(text, kw_truth) * 5 * Cent
        + str_count(text, kw_exposed) * 22 * Cent
        + str_count(text, kw_viral) * 18 * Cent
        + (IF str_in(s_blogspot, url) \/ str_in(s_wordpress, url)
                \/ str_endswith(url, s_dot_co)
           THEN 30 * Cent ELSE 0)
        + (IF str_in(s_hoax, url) \/ str_in(s_conspiracy, url)
                \/ str_in(s_rumor, url)
           THEN 40 * Cent ELSE 0)

\* a / 2.5, capped at 1.0
C8_Min(a) == IF 2 * a > 5 * One THEN One ELSE (2 * a) \div 5

\* the value the claim gives for four particular inputs
C8_Consequences(text_score) ==
    /\ (url = <<>> /\ content = <<>>) => text_score = 0
    /\ (url = Rep(kw_scam, 3) /\ content = <<>>) => text_score = 36 * Cent
    /\ (url = s_dot_co /\ content = <<>>) => text_score = 12 * Cent
    /\ (url = s_blogspot \o s_hoax /\ content = <<>>) => text_score = 28 * Cent

\* C8: score_text = min(A / 2.5, 1.0), A being the weighted keyword counts
\* plus 0.3 for a low-authority url plus 0.4 for a misinformation
\* indicator; empty input gives 0.0, three "scam" 0.36, ".co" 0.12,
\* blogspot with hoax 0.28.
C8_TextScoreFormula ==
    (app.called \/ cli.called) =>
    \A expected \in {C8_Min(C8_A(C8_Scanned))} :
        /\ app.called =>
              app.text_score = expected /\ C8_Consequences(app.text_score)
        /\ cli.called =>
              cli.text_score = expected /\ C8_Consequences(cli.text_score)

\* the url of three "scam" was scored 0.36 by both copies
C8_Witness ==
    /\ url = Rep(kw_scam, 3)
    /\ content = <<>>
    /\ app.called
    /\ cli.called
    /\ app.text_score = 36 * Cent
    /\ cli.text_score = 36 * Cent

\* C9: score_text has no lower clamp: a negative accumulator A (the sum of
\* C8) gives A / 2.5 < 0, and check carries the negative value into
\* text_score and into the overall score it blends from it.
C9_NoLowerClamp ==
    (app.called \/ cli.called) =>
    \A A \in {C8_A(C8_Scanned)} :
    /\ (app.called /\ A < 0) =>
          /\ 5 * app.text_score = 2 * A
          /\ app.text_score < 0
          /\ app.result.text_score.neg
          /\ 10 * app.final_misinfo_score
                = 6 * app.text_score
                    + (IF FeaturesPresent THEN 4 * app.image_score
                       ELSE 4 * app.text_score)
    /\ (cli.called /\ A < 0) =>
          /\ 5 * cli.text_score = 2 * A
          /\ cli.text_score < 0
          /\ 10 * cli.final_misinfo_score
                = 6 * cli.text_score
                    + (IF FeaturesPresent THEN 4 * cli.image_score
                       ELSE 10 * cli.text_score)

\* "fake news" outweighs the positive terms: both copies return a negative
\* text score and a negative overall score
C9_Witness ==
    /\ app.called
    /\ cli.called
    /\ app_bias_score(url, content) < 0
    /\ app.text_score < 0
    /\ cli.text_score < 0
    /\ app.final_misinfo_score < 0
    /\ cli.final_misinfo_score < 0

\* score_image with and without the 0.20 term
C10_ImageScore(with_term) ==
    LET n == image_features[2]
        base == (45 * n) \div 100
                  + (IF image_features[1] < 100 /\ n > 50 * Cent
                     THEN 35 * Cent ELSE 0)
        total == IF with_term THEN base + 20 * Cent ELSE base
    IN  IF total > One THEN One ELSE total

\* C10: the 0.20 term of score_image is added exactly when the draw r is
\* below noise_factor: always for noise_factor >= 1.0, never for
\* noise_factor <= 0.0.
C10_TermIffDrawBelowNoise ==
    /\ (app.called /\ FeaturesPresent) =>
          /\ app.image_score = C10_ImageScore(app.r < image_features[2])
          /\ image_features[2] >= One => app.image_score = C10_ImageScore(TRUE)
          /\ image_features[2] <= 0 => app.image_score = C10_ImageScore(FALSE)
    /\ (cli.called /\ FeaturesPresent) =>
          /\ cli.image_score = C10_ImageScore(cli.r < image_features[2])
          /\ image_features[2] >= One => cli.image_score = C10_ImageScore(TRUE)
          /\ image_features[2] <= 0 => cli.image_score = C10_ImageScore(FALSE)

\* for the same features with 0 < noise_factor < 1 the two copies drew
\* differently: one added the term, the other did not
C10_Witness ==
    /\ app.called
    /\ cli.called
    /\ FeaturesPresent
    /\ image_features[2] > 0
    /\ image_features[2] < One
    /\ app.r < image_features[2]
    /\ cli.r >= image_features[2]
    /\ app.image_score = C10_ImageScore(TRUE)
    /\ cli.image_score = C10_ImageScore(FALSE)
    /\ app.image_score = cli.image_score + 20 * Cent

\* the features check receives from run_false_news_check are the ones the
\* standalone script passes for the same request
SameFeatures == app.called => app.image_features = image_features

\* both fields are present and int() and float() accept them
C11_Coercible ==
    /\ raw[1].kind # "null"
    /\ raw[2].kind # "null"
    /\ py_int(raw[1]).exc = "none"
    /\ py_float(raw[2]).exc = "none"

\* C11: POST /check passes image features to check only when both fields
\* are present and int(file_size_kb) and float(noise_factor) succeed; in
\* every other case check is still called, without features, and a normal
\* answer with image_score "0.00" is returned: the two fields never cause
\* an error response.  Fails: int(float('inf')) and float of an integer of
\* 400 digits raise OverflowError, which the except clause does not catch.
C11_FieldsNeverCauseAnError ==
    status # 0 =>
        /\ status = 200
        /\ app.called
        /\ truthy(app.image_features) <=> C11_Coercible
        /\ ~C11_Coercible =>
              /\ app.image_features = None
              /\ app.r = NoDraw
              /\ app.result.image_score = [neg |-> FALSE, hundredths |-> 0]

\* the rendering f has two decimal digits and float(f) is within 0.005 of x
C12_Within(x, f) ==
    /\ f.hundredths \in Nat
    /\ 2 * Abs(ParseFmt2(f) - x) <= Cent

\* C12: each of score, text_score and image_score of a result is rendered
\* with exactly two decimal digits, and the rendered string read back as a
\* number is within 0.005 of the unrounded score.
C12_RenderedWithinHalfCent ==
    /\ app.called =>
          /\ C12_Within(app.final_misinfo_score, app.result.score)
          /\ C12_Within(app.text_score, app.result.text_score)
          /\ C12_Within(app.image_score, app.result.image_score)
    /\ cli.called =>
          C12_Within(cli.final_misinfo_score, cli.result.score)

\* an overall score that is no multiple of 0.01 was rendered as the next
\* hundredth above it
C12_Witness ==
    /\ app.called
    /\ app.final_misinfo_score > 0
    /\ 2 * (app.final_misinfo_score % Cent) > Cent
    /\ ParseFmt2(app.result.score) > app.final_misinfo_score

\* C13: check is deterministic apart from the draw: a call with the same
\* url, content and features as an earlier call, and the same draw (none
\* when the features are absent), returns the result the earlier call
\* returned.
C13_SameInputsSameResult ==
    last.called =>
        /\ (status # 0) => status = last.status
        /\ (app.called /\ last.app.called /\ app.r = last.app.r) =>
              /\ app.result = last.app.result
              /\ app = last.app
        /\ (cli.called /\ cli.r = last.cli.r) =>
              /\ cli.result = last.cli.result
              /\ cli = last.cli

\* a request with image features was checked twice by both programs, with
\* the same draws the second time, and the results are the same
C13_Witness ==
    /\ last.called
    /\ app.called
    /\ cli.called
    /\ FeaturesPresent
    /\ image_features[2] = 50 * Cent
    /\ app.r = last.app.r
    /\ cli.r = last.cli.r
    /\ app.r # cli.r
    /\ app.result = last.app.result
    /\ cli.result = last.cli.result

\* C14: score_image takes exactly one value from the random source on
\* every path, score_text takes none: a check call takes one draw when
\* image features are present and none when they are absent.
C14_DrawsPerCall ==
    /\ app.called =>
          /\ app.text_draws = 0
          /\ app.image_draws = (IF truthy(app.image_features) THEN 1 ELSE 0)
          /\ app.r \in Draws <=> app.text_draws + app.image_draws = 1
          /\ app.r = NoDraw <=> app.text_draws + app.image_draws = 0
    /\ cli.called =>
          /\ cli.text_draws = 0
          /\ cli.image_draws = (IF FeaturesPresent THEN 1 ELSE 0)
          /\ cli.r \in Draws <=> cli.text_draws + cli.image_draws = 1
          /\ cli.r = NoDraw <=> cli.text_draws + cli.image_draws = 0

\* a call with a large file and noise factor 0.0, where neither the 0.35
\* term nor the 0.20 term applies, took one draw in both copies
C14_Witness ==
    /\ image_features = <<100, 0>>
    /\ app.called
    /\ cli.called
    /\ app.image_score = 0
    /\ app.image_draws = 1
    /\ cli.image_draws = 1
    /\ app.r \in Draws

\* C15: no sequence of calls changes the keyword weight table,
\* MISINFO_THRESHOLD (0.55) or MANIPULATION_THRESHOLD (0.70), and
\* MISINFO_THRESHOLD < MANIPULATION_THRESHOLD in every reachable state.
C15_ConfigurationNeverChanges ==
    /\ app_self.sensational_keywords = sensational_keywords
    /\ cli_self.sensational_keywords = sensational_keywords
    /\ app_self.MISINFO_THRESHOLD = 55 * Cent
    /\ cli_self.MISINFO_THRESHOLD = 55 * Cent
    /\ app_self.MANIPULATION_THRESHOLD = 70 * Cent
    /\ cli_self.MANIPULATION_THRESHOLD = 70 * Cent
    /\ app_self.MISINFO_THRESHOLD < app_self.MANIPULATION_THRESHOLD
    /\ cli_self.MISINFO_THRESHOLD < cli_self.MANIPULATION_THRESHOLD

\* both checkers have answered a request twice, with image analysis, and
\* hold the attributes __init__ gave them
C15_Witness ==
    /\ last.called
    /\ app.called
    /\ cli.called
    /\ FeaturesPresent
    /\ app_self = FalseNewsChecker_init
    /\ cli_self = FalseNewsChecker_init

\* the value the claim gives score_image
C16_Expected(file_size_kb, n, r) ==
    LET total == (45 * n) \div 100
                   + (IF file_size_kb < 100 /\ n > 50 * Cent
                      THEN 35 * Cent ELSE 0)
                   + (IF r < n THEN 20 * Cent ELSE 0)
    IN  IF total > One THEN One ELSE total

\* the same without the 0.35 term
C16_WithoutSizeTerm(n, r) ==
    LET total == (45 * n) \div 100 + (IF r < n THEN 20 * Cent ELSE 0)
    IN  IF total > One THEN One ELSE total

\* C16: score_image = min(0.45 n + (0.35 if file_size_kb < 100 and n > 0.5)
\* + (0.20 if r < n), 1.0); both comparisons of the 0.35 term are strict:
\* file_size_kb = 100 or n = 0.5 does not add 0.35.
C16_ImageScoreFormula ==
    /\ (app.called /\ FeaturesPresent) =>
          /\ app.image_score
                = C16_Expected(image_features[1], image_features[2], app.r)
          /\ (image_features[1] = 100 \/ image_features[2] = 50 * Cent) =>
                app.image_score = C16_WithoutSizeTerm(image_features[2], app.r)
    /\ (cli.called /\ FeaturesPresent) =>
          /\ cli.image_score
                = C16_Expected(image_features[1], image_features[2], cli.r)
          /\ (image_features[1] = 100 \/ image_features[2] = 50 * Cent) =>
                cli.image_score = C16_WithoutSizeTerm(image_features[2], cli.r)

\* a small file with noise factor exactly 0.5 and a draw that is not below
\* it scores 0.225 in both copies
C16_Witness ==
    /\ image_features = <<0, 50 * Cent>>
    /\ app.called
    /\ cli.called
    /\ app.r >= 50 * Cent
    /\ cli.r >= 50 * Cent
    /\ app.image_score = 2250
    /\ cli.image_score = 2250

\* C17 as stated: the text score_text scans is lower(url ++ content), url
\* followed directly by content, so that url "sca" with content "m" counts
\* one "scam".  Fails: the code puts a space between the two.
C17_ScansDirectConcatenation ==
    (app.called \/ cli.called) =>
    \A expected \in {C8_Min(C8_A(str_lower(url \o content)))} :
        /\ app.called => app.text_score = expected
        /\ cli.called => cli.text_score = expected

\* C17, amended: the text score_text scans is lower(url ++ " " ++ content):
\* url "sca" with content "m" counts no "scam", and url "fake" with content
\* "news" counts one "fake news".
C17_ScansWithSeparatingSpace ==
    (app.called \/ cli.called) =>
    \A text \in {str_lower(url \o <<" ">> \o content)} :
    \A score \in {C8_Min(C8_A(text))} :
        /\ Len(text) = Len(url) + 1 + Len(content)
        /\ app.called => app.text_score = score
        /\ cli.called => cli.text_score = score
        /\ (url = s_sca /\ content = s_m) => score = 0
        /\ (url = s_fake /\ content = s_news) => score = -(20 * Cent)

\* url "sca" with content "m" was scored 0.0 by both copies
C17_Witness ==
    /\ url = s_sca
    /\ content = s_m
    /\ app.called
    /\ cli.called
    /\ app.text_score = 0
    /\ cli.text_score = 0

\* the weighted keyword counts of the scanned text
C18_KeywordPart(text) ==
    str_count(text, kw_shocking) * 25 * Cent
        + str_count(text, kw_exclusive) * 15 * Cent
        + str_count(text, kw_must_see) * 20 * Cent
        + str_count(text, kw_disaster) * 10 * Cent
        + str_count(text, kw_scam) * 30 * Cent
        - str_count(text, kw_fake_news) * 50 * Cent
        + str_count(text, kw_truth) * 5 * Cent
        + str_count(text, kw_exposed) * 22 * Cent
        + str_count(text, kw_viral) * 18 * Cent

\* the url holds a low-authority marker
C18_LowAuthority(u) ==
    str_in(s_blogspot, u) \/ str_in(s_wordpress, u) \/ str_endswith(u, s_dot_co)

\* the url holds a misinformation indicator
C18_Indicator(u) ==
    str_in(s_hoax, u) \/ str_in(s_conspiracy, u) \/ str_in(s_rumor, u)

\* the domain contribution the claim gives a url
C18_DomainPart(u) ==
    (IF C18_LowAuthority(u) THEN 30 * Cent ELSE 0)
        + (IF C18_Indicator(u) THEN 40 * Cent ELSE 0)

\* C18: the two domain penalties depend on the url only and are applied at
\* most once each: 0.3 if the url contains "blogspot" or "wordpress" or
\* ends with ".co", 0.4 if it contains "hoax", "conspiracy" or "rumor";
\* markers in the content add nothing; the domain contribution is one of
\* 0, 0.3, 0.4, 0.7.
C18_DomainPenaltiesFromUrlOnly ==
    (app.called \/ cli.called) =>
    \A kw \in {C18_KeywordPart(C8_Scanned)} :
    \A d \in {C18_DomainPart(url)} :
        /\ d \in {0, 30 * Cent, 40 * Cent, 70 * Cent}
        /\ app.called => app.text_score = C8_Min(kw + d)
        /\ cli.called => cli.text_score = C8_Min(kw + d)
        /\ (url = <<>> /\ app.called) => app.text_score = C8_Min(kw)
        /\ (url = <<>> /\ cli.called) => cli.text_score = C8_Min(kw)

\* "hoax" twice in the content of a request with an empty url added no
\* penalty
C18_Witness ==
    /\ url = <<>>
    /\ content = Rep(s_hoax, 2)
    /\ app.called
    /\ cli.called
    /\ app.text_score = 0
    /\ cli.text_score = 0

\* the url has no lower-case letter
C19_UpperCase(u) == u = str_upper(u)

\* C19: score_text is case-insensitive for keywords and case-sensitive for
\* domain markers: the keyword contribution of a url is that of the url in
\* upper case, and a url whose markers are written in upper case gets no
\* domain penalty.
C19_CaseSensitivity ==
    (app.called \/ cli.called) =>
    \A kw \in {C18_KeywordPart(
                   str_lower(str_upper(url) \o s_space \o content))} :
    \A d \in {C18_DomainPart(url)} :
        /\ app.called => app.text_score = C8_Min(kw + d)
        /\ cli.called => cli.text_score = C8_Min(kw + d)
        /\ C19_UpperCase(url) =>
              /\ d = 0
              /\ app.called => app.text_score = C8_Min(kw)
              /\ cli.called => cli.text_score = C8_Min(kw)

\* the url "BLOGSPOTHOAXSCAM.CO" was scored 0.12 by both copies: one
\* "scam", no penalty
C19_Witness ==
    /\ url = str_upper(s_blogspot \o s_hoax \o kw_scam \o s_dot_co)
    /\ content = <<>>
    /\ app.called
    /\ cli.called
    /\ app.text_score = 12 * Cent
    /\ cli.text_score = 12 * Cent

\* C20 as stated: a result whose rendered score is at most "0.55" carries
\* the verified verdict, and one whose rendered score is at most "0.70"
\* never carries the high-risk verdict.  Fails: 0.554 renders as "0.55"
\* and is above the threshold.
C20_VerdictAgreesWithRenderedScore ==
    /\ app.called =>
          /\ ParseFmt2(app.result.score) <= 55 * Cent =>
                app.result.verdict = VERIFIED
          /\ ParseFmt2(app.result.score) <= 70 * Cent =>
                app.result.verdict # HIGH_RISK
    /\ cli.called =>
          /\ ParseFmt2(cli.result.score) <= 55 * Cent =>
                cli.result.verdict = VERIFIED
          /\ ParseFmt2(cli.result.score) <= 70 * Cent =>
                cli.result.verdict # HIGH_RISK

\* the verdicts a rendered score allows
C20_Allowed(score, verdict) ==
    /\ ParseFmt2(score) < 55 * Cent => verdict = VERIFIED
    /\ ParseFmt2(score) < 70 * Cent => verdict # HIGH_RISK
    /\ ParseFmt2(score) > 55 * Cent => verdict # VERIFIED
    /\ ParseFmt2(score) > 70 * Cent => verdict = HIGH_RISK

\* C20, amended: a result whose rendered score is below "0.55" carries the
\* verified verdict and one whose rendered score is below "0.70" never
\* carries the high-risk verdict; a score rendered above "0.55" is never
\* verified and one rendered above "0.70" is high risk.  At "0.55" and
\* "0.70" themselves the verdict follows the unrounded score.
C20_VerdictAgreesOffThreshold ==
    /\ app.called => C20_Allowed(app.result.score, app.result.verdict)
    /\ cli.called => C20_Allowed(cli.result.score, cli.result.verdict)

\* a result rendered "0.55" carries the caution verdict
C20_Witness ==
    /\ app.called
    /\ app.result.score = [neg |-> FALSE, hundredths |-> 55]
    /\ app.final_misinfo_score > 55 * Cent
    /\ app.result.verdict = CAUTION

\* C21: image evidence alone never raises the verdict: with image features
\* present and noise_factor in [0, 1], a text score of at most 0.25 gives
\* the verified verdict for every file size, noise factor and draw.
C21_ImageAloneNeverRaises ==
    /\ (app.called /\ truthy(app.image_features)
            /\ app.image_features[2] >= 0 /\ app.image_features[2] <= One
            /\ app.text_score <= 25 * Cent) =>
          /\ app.final_misinfo_score <= 55 * Cent
          /\ app.result.verdict = VERIFIED
    /\ (cli.called /\ FeaturesPresent
            /\ image_features[2] >= 0 /\ image_features[2] <= One
            /\ cli.text_score <= 25 * Cent) =>
          /\ cli.final_misinfo_score <= 55 * Cent
          /\ cli.result.verdict = VERIFIED

\* with noise factor 1.0 and a small file the image score is 1.0, the text
\* score is 0.24, and both copies return verified for an overall 0.544
C21_Witness ==
    /\ image_features = <<0, One>>
    /\ app.called
    /\ cli.called
    /\ app.text_score = 24 * Cent
    /\ cli.text_score = 24 * Cent
    /\ app.image_score = One
    /\ cli.image_score = One
    /\ app.final_misinfo_score = 5440
    /\ app.result.verdict = VERIFIED
    /\ cli.result.verdict = VERIFIED

\* the risk tier of a verdict
C22_Tier(verdict) ==
    IF verdict = VERIFIED THEN 0 ELSE IF verdict = CAUTION THEN 1 ELSE 2

\* the verdict check gives the same url and content without image features:
\* the overall score is then the text score
C22_TextOnlyVerdict(text_score) ==
    IF text_score > 70 * Cent THEN HIGH_RISK
    ELSE IF text_score > 55 * Cent THEN CAUTION
    ELSE VERIFIED

\* C22 as stated: supplying image features with noise_factor in [0, 1]
\* never lowers the verdict the web-app check gives for the same url and
\* content without them.  Fails: with noise_factor 0 the overall score is
\* 0.6 * text_score.
C22_FeaturesNeverLowerVerdict ==
    (app.called /\ truthy(app.image_features)
        /\ app.image_features[2] >= 0 /\ app.image_features[2] <= One) =>
        C22_Tier(app.result.verdict)
            >= C22_Tier(C22_TextOnlyVerdict(app.text_score))

\* C22, amended: supplying image features with noise_factor in [0, 1] does
\* not lower the verdict of the web-app check when the image score is at
\* least the text score; the overall score is then at least the text score.
C22_FeaturesNeverLowerWhenImageHigher ==
    (app.called /\ truthy(app.image_features)
        /\ app.image_features[2] >= 0 /\ app.image_features[2] <= One
        /\ app.image_score >= app.text_score) =>
        /\ app.final_misinfo_score >= app.text_score
        /\ C22_Tier(app.result.verdict)
              >= C22_Tier(C22_TextOnlyVerdict(app.text_score))

\* a text score of 0.50, verified on its own, became caution with an image
\* score of 1.0
C22_Witness ==
    /\ app.called
    /\ truthy(app.image_features)
    /\ app.image_features[2] = One
    /\ app.text_score = 50 * Cent
    /\ app.image_score = One
    /\ app.result.verdict = CAUTION
    /\ C22_TextOnlyVerdict(app.text_score) = VERIFIED

\* ------------------------------------------------------------------------
\* The account API (src/main.py)
\* ------------------------------------------------------------------------

\* the email of a row, stripped and lowercased
C23_Normalised(row) == str_lower(py_strip(row.email))

\* a register request that has been answered
C23_Answered(w) == reg[w].pc = "answered"

\* two register requests for the same email that ran at the same time, both
\* answered
C23_Concurrent(v, w) ==
    /\ v # w
    /\ C23_Answered(v) /\ C23_Answered(w)
    /\ reg[v].status # 400 /\ reg[w].status # 400
    /\ reg[v].email = reg[w].email
    /\ reg[v].overlap /\ reg[w].overlap

C23_State ==
    /\ \A i, j \in 1..Len(users) :
          i # j => C23_Normalised(users[i]) # C23_Normalised(users[j])
    /\ \A w \in Workers :
          C23_Answered(w) =>
             /\ reg[w].status \in {201, 400, 409}
             /\ reg[w].status = 201 <=> reg[w].inserted
    /\ \A v, w \in Workers :
          C23_Concurrent(v, w) =>
             /\ ~(reg[v].status = 201 /\ reg[w].status = 201)
             /\ (reg[v].fresh /\ reg[w].fresh) =>
                   {reg[v].status, reg[w].status} = {201, 409}

\* a register request is answered in this step
C23_Answers(w) == ~C23_Answered(w) /\ reg'[w].pc = "answered"

C23_Step ==
    \A w \in Workers :
       C23_Answers(w) =>
          /\ reg'[w].status \in {400, 409} => users' = users
          /\ reg'[w].status = 201 =>
                /\ Len(users') = Len(users) + 1
                /\ SubSeq(users', 1, Len(users)) = users
                /\ users'[Len(users')].email = reg'[w].email

\* C23: no two rows of the users table have the same normalised email; of
\* two concurrent register requests for one email never both are answered
\* 201, and when the email was not registered as they began exactly one is
\* answered 201 and inserts a row and the other 409; a register request
\* answered 400 or 409 leaves the table as it was.
C23_UniqueEmails == []C23_State /\ [][C23_Step]_acc_vars

C23_Witness ==
    /\ Len(users) = 1
    /\ \E v, w \in Workers :
          /\ C23_Concurrent(v, w)
          /\ reg[v].fresh /\ reg[w].fresh
          /\ reg[v].status = 201 /\ reg[v].inserted
          /\ reg[w].status = 409 /\ ~reg[w].inserted
          /\ users[1].email = reg[w].email

\* the row of the users table the session's user_email names was registered
\* with the password of the login that was answered 200
C24_LoggedIn ==
    /\ granted # None
    /\ session.user_email = granted[1]
    /\ \E i \in 1..Len(users) :
          /\ users[i].email = granted[1]
          /\ users[i].password.digest_of = granted[2]

C24_State ==
    /\ session.user_email = None \/ C24_LoggedIn
    /\ acc_last.route = "logout" => session = NoSession

C24_Step ==
    session' # session =>
       \/ acc_last'.route = "login" /\ acc_last'.status = 200
       \/ acc_last'.route = "logout"

\* C24: the session's user_email is unset or the email of a registered row
\* for which a login with the matching password was answered 200 since the
\* last logout; only a login answered 200 and a logout change the session,
\* and after a logout the session holds no user_email.
C24_SessionOnlyByLogin == []C24_State /\ [][C24_Step]_acc_vars

C24_Witness ==
    /\ acc_last.route = "login" /\ acc_last.status = 401
    /\ session.user_email # None
    /\ C24_LoggedIn
    /\ Len(users) = 2

\* ------------------------------------------------------------------------
\* The article check by url (src/check.py)
\* ------------------------------------------------------------------------

\* check_news_authenticity_by_url has returned
C25_Returned == f_pc = "done" /\ final_output.kind # "refused"

\* get_article_text caught a request exception or another exception
C25_FetchFailed == f_fetched.kind \in {"RequestException", "Exception"}

\* C25: check_news_authenticity_by_url returns an "Analysis Failed" result
\* exactly when get_article_text failed or the extracted text is empty;
\* every successful fetch with non-empty extracted text reaches classify_text
\* and yields a classification result.
C25_FailedIffFetchFailedOrEmpty ==
    C25_Returned =>
       /\ final_output.kind = "Analysis Failed"
             <=> (C25_FetchFailed \/ article_content = <<>>)
       /\ (~C25_FetchFailed /\ article_content # <<>>) =>
             /\ f_classified
             /\ final_output.kind = "CLASSIFICATION RESULT"

====
